---- MODULE Spec2Model ----
(***************************************************************************)
(* Model of install-kdg-kiosk.py: the release resolver, the asset          *)
(* selection, the progress-tracked download, the two-tier installer and    *)
(* the two front ends (CLIInstaller.run and InstallerWindow with its two   *)
(* worker threads) that sequence them and own the temporary directory.     *)
(*                                                                         *)
(* Strings whose content the code inspects (tags, versions, asset names,   *)
(* captured process output) are sequences of one-character strings.        *)
(***************************************************************************)
EXTENDS Integers, Sequences, FiniteSets, TLC

VARIABLES
    use_gui,        \* main: which front end runs ("unset" before main)
    self_version,   \* --version argument; <<>> when absent (None and "" are both falsy)
    pc,             \* position of the main / UI thread
    stage,          \* pipeline stage reached (state machine of the orchestrator)
    error,          \* message of the last exception shown to the user ("" if none)
    response,       \* what the release endpoint answered to this run's request
    version,        \* local `version` of run / start_installation
    assets,         \* release_info["assets"]
    selected,       \* (download_url, filename) returned by find_deb_asset
    temp_exists,    \* the directory made by tempfile.mkdtemp exists on disk
    mkdtemp_calls,  \* number of tempfile.mkdtemp() calls
    rmtree_calls,   \* number of shutil.rmtree(temp_dir) calls
    dl,             \* state of the running download_file call
    callbacks,      \* progress_callback invocations of download_file, in order
    inst,           \* state of the running install_deb call
    status_msgs,    \* progress_callback invocations of install_deb, in order
    dl_thread,      \* DownloadThread: "none", "running", "done"
    inst_thread,    \* InstallThread: "none", "running", "done"
    signals,        \* finished signals queued to the UI thread
    launch_enabled, \* launch_button.isEnabled()
    wizard,         \* setup wizard: "none", "launched", "warning"
    history,        \* calls made so far, in order, each with the thread that makes it
    compat_errors,  \* `errors`: what check_system_compatibility returned
    has_root,       \* what check_root returned
    exit_code       \* status passed to sys.exit (-1 while the process runs)

vars == <<use_gui, self_version, pc, stage, error, response, version, assets, selected,
          temp_exists, mkdtemp_calls, rmtree_calls, dl, callbacks, inst,
          status_msgs, dl_thread, inst_thread, signals, launch_enabled, wizard,
          history, compat_errors, has_root, exit_code>>

(***************************************************************************)
(* Bounds of the model.                                                    *)
(***************************************************************************)
MaxTagLen == 3      \* longest tag_name
MaxAssets == 2      \* most assets in one release
BlockSize == 2      \* bytes per block read by urlretrieve
MaxTotal == 5       \* largest Content-Length / body length in bytes
MaxLines == 2       \* most output lines of the apt process

Min(a, b) == IF a < b THEN a ELSE b

RECURSIVE SeqsUpTo(_, _)
SeqsUpTo(S, n) ==
    IF n = 0 THEN {<<>>}
    ELSE LET shorter == SeqsUpTo(S, n - 1)
         IN shorter \cup {Append(s, x) : s \in {t \in shorter : Len(t) = n - 1}, x \in S}

RECURSIVE Concat(_)
Concat(ss) == IF ss = <<>> THEN <<>> ELSE Head(ss) \o Concat(Tail(ss))

(***************************************************************************)
(* Configuration constants (lines 29-31).                                  *)
(***************************************************************************)
DEB_PREFIX == <<"k","d","g","-","k","i","o","s","k","_">>
DEB_SUFFIX == <<"_","a","m","d","6","4",".","d","e","b">>
DOT_DEB == <<".","d","e","b">>

\* DEB_PATTERN.format(version=version)
DEB_PATTERN_format(v) == DEB_PREFIX \o v \o DEB_SUFFIX

\* str.endswith
endswith(s, suffix) ==
    /\ Len(s) >= Len(suffix)
    /\ SubSeq(s, Len(s) - Len(suffix) + 1, Len(s)) = suffix

\* str.lstrip(chars) for a one-character argument: drops EVERY leading c
RECURSIVE lstrip(_, _)
lstrip(s, c) == IF s # <<>> /\ Head(s) = c THEN lstrip(Tail(s), c) ELSE s


\* str.strip(): drops leading and trailing whitespace
WHITESPACE == {" ", "\n"}
RECURSIVE lstrip_ws(_)
lstrip_ws(s) == IF s # <<>> /\ Head(s) \in WHITESPACE THEN lstrip_ws(Tail(s)) ELSE s
RECURSIVE rstrip_ws(_)
rstrip_ws(s) ==
    IF s # <<>> /\ s[Len(s)] \in WHITESPACE THEN rstrip_ws(SubSeq(s, 1, Len(s) - 1)) ELSE s
strip(s) == lstrip_ws(rstrip_ws(s))

(***************************************************************************)
(* Inputs drawn from the environment.                                      *)
(***************************************************************************)
\* tag_name values of the release metadata
Tags == SeqsUpTo({"v", "1"}, MaxTagLen)

\* asset file names a release may publish
AssetNames ==
    { DEB_PATTERN_format(<<"1">>),
      <<"o", ".", "d", "e", "b">>,
      <<"o", ".", "t", "x", "t">> }

\* data["assets"]: the i-th asset's browser_download_url is modelled as i
AssetLists ==
    { [i \in 1..Len(ns) |-> [name |-> ns[i], browser_download_url |-> i]] :
        ns \in SeqsUpTo(AssetNames, MaxAssets) }

\* what urlopen(url, timeout=10) followed by json.loads and the field reads can meet
FailureKinds == {"http_404", "http_error", "url_error", "timeout", "bad_json", "missing_field"}
Responses ==
    [kind : {"ok"}, tag_name : Tags, assets : AssetLists]
    \cup [kind : FailureKinds, tag_name : {<<>>}, assets : {<<>>}]

\* values of the --version argument (<<>>: not given)
RequestedVersions == {<<>>, <<"2">>}

\* lists check_system_compatibility can return
CompatErrors == {<<>>, <<"dpkg not found.">>, <<"dpkg not found.", "apt not found.">>}

\* lines the apt process can print, and stderr texts of the fallback commands
Lines == {<<"a", "\n">>, <<" ", "\n">>}
StderrTexts == {<<>>, <<"E">>}

(***************************************************************************)
(* Utility functions.                                                      *)
(***************************************************************************)
NoReleaseInfo == [raised |-> "", version |-> <<>>, assets |-> <<>>]

\* get_latest_release_info without the e.code == 404 test
get_latest_release_info_no_404_arm(resp) ==
    IF resp.kind = "ok"
    THEN [raised |-> "", version |-> lstrip(resp.tag_name, "v"), assets |-> resp.assets]
    ELSE IF resp.kind \in {"http_404", "http_error"}
    THEN [NoReleaseInfo EXCEPT !.raised = "Failed to fetch release info"]
    ELSE [NoReleaseInfo EXCEPT !.raised = "Failed to connect to GitHub"]

\* get_latest_release_info: the three except arms give three messages
get_latest_release_info(resp) ==
    IF resp.kind = "ok"
    THEN [raised |-> "", version |-> lstrip(resp.tag_name, "v"), assets |-> resp.assets]
    ELSE IF resp.kind = "http_404"
    THEN [NoReleaseInfo EXCEPT !.raised = "No releases found"]
    ELSE IF resp.kind = "http_error"
    THEN [NoReleaseInfo EXCEPT !.raised = "Failed to fetch release info"]
    ELSE [NoReleaseInfo EXCEPT !.raised = "Failed to connect to GitHub"]

NoAsset == [raised |-> TRUE, url |-> 0, name |-> <<>>]

\* find_deb_asset that takes the first asset whatever its name
find_deb_asset_any_file(as, v) ==
    IF as = <<>> THEN NoAsset
    ELSE [raised |-> FALSE, url |-> as[1].browser_download_url, name |-> as[1].name]

\* find_deb_asset: the first asset of the list that passes the `or` test
find_deb_asset(as, v) ==
    LET deb_name == DEB_PATTERN_format(v)
        hits == { i \in 1..Len(as) :
                    as[i].name = deb_name \/ endswith(as[i].name, DOT_DEB) }
    IN  IF hits = {} THEN NoAsset
        ELSE LET i == CHOOSE j \in hits : \A k \in hits : j <= k
             IN [raised |-> FALSE, url |-> as[i].browser_download_url, name |-> as[i].name]

\* reporthook's percent without the clamp to 100
percent_of_unclamped(block_num, block_size, total_size) ==
    (block_num * block_size * 100) \div total_size

\* reporthook's percent
percent_of(block_num, block_size, total_size) ==
    Min(100, (block_num * block_size * 100) \div total_size)

\* reporthook that also reports when the total size is not positive
reporthook_unguarded(cbs, block_num, block_size, total_size) ==
    Append(cbs, [percent |-> IF total_size > 0
                             THEN percent_of(block_num, block_size, total_size) ELSE 0,
                 downloaded |-> block_num * block_size,
                 total |-> total_size])

\* reporthook(block_num, block_size, total_size): the callbacks after the call
reporthook(cbs, block_num, block_size, total_size) ==
    IF total_size > 0
    THEN Append(cbs, [percent |-> percent_of(block_num, block_size, total_size),
                      downloaded |-> block_num * block_size,
                      total |-> total_size])
    ELSE cbs

INSTALL_FAILED_PREFIX ==
    <<"I","n","s","t","a","l","l","a","t","i","o","n"," ","f","a","i","l","e","d",":"," ">>

DlIdle ==
    [status |-> "idle", total_size |-> -1, remaining |-> 0, read |-> 0, block_num |-> 0,
     raised |-> ""]
InstIdle ==
    [status |-> "idle", cmds |-> <<>>, returncodes |-> <<>>, output_lines |-> <<>>,
     message |-> <<>>]
NoSelection == [url |-> 0, name |-> <<>>]
NoResponse == [kind |-> "none", tag_name |-> <<>>, assets |-> <<>>]

Init ==
    /\ use_gui = FALSE
    /\ self_version = <<>>
    /\ pc = "main"
    /\ stage = "Idle"
    /\ error = ""
    /\ response = NoResponse
    /\ version = <<>>
    /\ assets = <<>>
    /\ selected = NoSelection
    /\ temp_exists = FALSE
    /\ mkdtemp_calls = 0
    /\ rmtree_calls = 0
    /\ dl = DlIdle
    /\ callbacks = <<>>
    /\ inst = InstIdle
    /\ status_msgs = <<>>
    /\ dl_thread = "none"
    /\ inst_thread = "none"
    /\ signals = <<>>
    /\ launch_enabled = FALSE
    /\ wizard = "none"
    /\ history = <<>>
    /\ compat_errors = <<>>
    /\ has_root = FALSE
    /\ exit_code = -1

argsVars == <<use_gui, self_version>>
releaseVars == <<response, version, assets, selected>>
tempVars == <<temp_exists, mkdtemp_calls, rmtree_calls>>
dlVars == <<dl, callbacks>>
instVars == <<inst, status_msgs>>
guiVars == <<dl_thread, inst_thread, signals, launch_enabled>>
checkVars == <<compat_errors, has_root>>
logVars == <<history, checkVars, exit_code>>

\* one call, made by the thread that executes the calling statement
Call(name, thread) == [call |-> name, thread |-> thread]

\* main: success = installer.run(); sys.exit(0 if success else 1)
sys_exit_after_run(success) ==
    exit_code' = IF pc' = "exited" THEN (IF success THEN 0 ELSE 1) ELSE exit_code

\* main: parse the arguments and pick the front end
main ==
    /\ pc = "main"
    /\ \E g \in BOOLEAN, v \in RequestedVersions :
        /\ use_gui' = g
        /\ self_version' = v
        /\ pc' = IF g THEN "gui_compat" ELSE "cli_compat"
    /\ stage' = "CheckingCompatibility"
    /\ UNCHANGED <<error, releaseVars, tempVars, dlVars, instVars, guiVars, wizard, logVars>>

(***************************************************************************)
(* Temporary directory.                                                    *)
(***************************************************************************)
\* tempfile.mkdtemp()
mkdtemp ==
    /\ temp_exists' = TRUE
    /\ mkdtemp_calls' = mkdtemp_calls + 1
    /\ UNCHANGED rmtree_calls

\* n successive shutil.rmtree(temp_dir, ignore_errors=True) calls
rmtree(n) ==
    /\ temp_exists' = FALSE
    /\ rmtree_calls' = rmtree_calls + n
    /\ UNCHANGED mkdtemp_calls

(***************************************************************************)
(* CLIInstaller.run, one action per stage of the function.                 *)
(***************************************************************************)
\* errors = check_system_compatibility(); if errors: return False
CLI_check_compatibility ==
    /\ pc = "cli_compat"
    /\ \E errors \in CompatErrors :
        /\ compat_errors' = errors
        /\ IF errors # <<>>
           THEN /\ stage' = "INCOMPATIBLE"
                /\ pc' = "exited"
           ELSE /\ stage' = "CheckingPrivilege"
                /\ pc' = "cli_root"
    /\ history' = Append(history, Call("check_system_compatibility", "main"))
    /\ sys_exit_after_run(FALSE)
    /\ UNCHANGED <<argsVars, has_root, error, releaseVars, tempVars, dlVars, instVars, guiVars, wizard>>

\* run whose `if not check_root():` arm lacks the return
CLI_check_root_no_return ==
    /\ pc = "cli_root"
    /\ \E is_root \in BOOLEAN :
        /\ has_root' = is_root
        /\ stage' = IF ~is_root THEN "UNAUTHORIZED" ELSE "ResolvingRelease"
        /\ pc' = "cli_resolve"
    /\ history' = Append(history, Call("check_root", "main"))
    /\ sys_exit_after_run(FALSE)
    /\ UNCHANGED <<argsVars, compat_errors, error, releaseVars, tempVars, dlVars, instVars,
                   guiVars, wizard>>

\* if not check_root(): return False
CLI_check_root ==
    /\ pc = "cli_root"
    /\ \E is_root \in BOOLEAN :
        /\ has_root' = is_root
        /\ IF ~is_root
           THEN /\ stage' = "UNAUTHORIZED"
                /\ pc' = "exited"
           ELSE /\ stage' = "ResolvingRelease"
                /\ pc' = "cli_resolve"
    /\ history' = Append(history, Call("check_root", "main"))
    /\ sys_exit_after_run(FALSE)
    /\ UNCHANGED <<argsVars, compat_errors, error, releaseVars, tempVars, dlVars, instVars, guiVars, wizard>>

\* release_info = get_latest_release_info(GITHUB_REPO); version = self.version or ...
CLI_get_release ==
    /\ pc = "cli_resolve"
    /\ \E resp \in Responses :
        LET info == get_latest_release_info(resp)
        IN  /\ response' = resp
            /\ IF info.raised # ""
               THEN /\ error' = info.raised
                    /\ stage' = "RESOLVE_FAILED"
                    /\ pc' = "exited"
                    /\ UNCHANGED <<version, assets>>
               ELSE /\ version' = IF self_version # <<>> THEN self_version ELSE info.version
                    /\ assets' = info.assets
                    /\ stage' = "SelectingAsset"
                    /\ pc' = "cli_select"
                    /\ UNCHANGED error
    /\ history' = Append(history, Call("get_latest_release_info", "main"))
    /\ sys_exit_after_run(FALSE)
    /\ UNCHANGED <<checkVars, argsVars, selected, tempVars, dlVars, instVars, guiVars, wizard>>

\* CLIInstaller.run without the return after a failed selection
CLI_find_asset_no_return ==
    /\ pc = "cli_select"
    /\ LET found == find_deb_asset(assets, version)
       IN  IF found.raised
           THEN /\ error' = "Could not find .deb file in release assets"
                /\ stage' = "ASSET_NOT_FOUND"
                /\ pc' = "cli_mkdtemp"
                /\ UNCHANGED selected
           ELSE /\ selected' = [url |-> found.url, name |-> found.name]
                /\ pc' = "cli_mkdtemp"
                /\ UNCHANGED <<error, stage>>
    /\ history' = Append(history, Call("find_deb_asset", "main"))
    /\ sys_exit_after_run(FALSE)
    /\ UNCHANGED <<checkVars, argsVars, response, version, assets, tempVars, dlVars, instVars, guiVars,
                   wizard>>

\* download_url, filename = find_deb_asset(release_info["assets"], version)
CLI_find_asset ==
    /\ pc = "cli_select"
    /\ LET found == find_deb_asset(assets, version)
       IN  IF found.raised
           THEN /\ error' = "Could not find .deb file in release assets"
                /\ stage' = "ASSET_NOT_FOUND"
                /\ pc' = "exited"
                /\ UNCHANGED selected
           ELSE /\ selected' = [url |-> found.url, name |-> found.name]
                /\ pc' = "cli_mkdtemp"
                /\ UNCHANGED <<error, stage>>
    /\ history' = Append(history, Call("find_deb_asset", "main"))
    /\ sys_exit_after_run(FALSE)
    /\ UNCHANGED <<checkVars, argsVars, response, version, assets, tempVars, dlVars, instVars, guiVars,
                   wizard>>

\* temp_dir = tempfile.mkdtemp(); deb_path = ...; download_file(...) is entered.
\* The release metadata is not read again from here on.
CLI_start_download ==
    /\ pc = "cli_mkdtemp"
    /\ mkdtemp
    /\ dl' = [DlIdle EXCEPT !.status = "start"]
    /\ response' = NoResponse
    /\ version' = <<>>
    /\ assets' = <<>>
    /\ stage' = "Downloading"
    /\ pc' = "cli_download"
    /\ history' = history \o <<Call("mkdtemp", "main"), Call("download_file", "main")>>
    /\ UNCHANGED <<checkVars, exit_code, argsVars, error, selected, callbacks, instVars, guiVars, wizard>>

\* download_file returned or raised: except -> rmtree, return False; else install_deb
CLI_download_done ==
    /\ pc = "cli_download"
    /\ dl.status \in {"ok", "failed"}
    /\ IF dl.status = "failed"
       THEN /\ error' = "Download failed"
            /\ rmtree(1)
            /\ stage' = "DOWNLOAD_FAILED"
            /\ pc' = "exited"
            /\ UNCHANGED inst
       ELSE /\ inst' = [InstIdle EXCEPT !.status = "start"]
            /\ stage' = "Installing"
            /\ pc' = "cli_install"
            /\ UNCHANGED <<error, tempVars>>
    /\ history' = IF dl.status = "ok" THEN Append(history, Call("install_deb", "main"))
                  ELSE history
    /\ sys_exit_after_run(FALSE)
    /\ UNCHANGED <<checkVars, argsVars, releaseVars, dlVars, status_msgs, guiVars, wizard>>

\* install_deb returned (True, output): finally -> rmtree; or raised: except ->
\* rmtree, return False, and the finally clause runs rmtree again
CLI_install_done ==
    /\ pc = "cli_install"
    /\ inst.status \in {"ok", "failed"}
    /\ IF inst.status = "ok"
       THEN /\ rmtree(1)
            /\ stage' = "SUCCEEDED"
            /\ pc' = "cli_wizard"
            /\ UNCHANGED error
       ELSE /\ error' = "Installation failed"
            /\ rmtree(2)
            /\ stage' = "INSTALL_FAILED"
            /\ pc' = "exited"
    /\ sys_exit_after_run(FALSE)
    /\ UNCHANGED <<history, checkVars, argsVars, releaseVars, dlVars, instVars, guiVars, wizard>>

\* response = input(...); optional subprocess.Popen of the setup wizard; return True
CLI_ask_wizard ==
    /\ pc = "cli_wizard"
    /\ \E declined \in BOOLEAN, spawned \in BOOLEAN :
        wizard' = IF declined THEN "none" ELSE IF spawned THEN "launched" ELSE "warning"
    /\ pc' = "exited"
    /\ sys_exit_after_run(TRUE)
    /\ UNCHANGED <<history, checkVars, argsVars, stage, error, releaseVars, tempVars, dlVars, instVars, guiVars>>

(***************************************************************************)
(* download_file: urllib.request.urlretrieve with the reporthook, run by   *)
(* CLIInstaller.run itself or by the DownloadThread.                       *)
(***************************************************************************)
DownloadRunner ==
    IF use_gui THEN dl_thread = "running" /\ pc # "exited" ELSE pc = "cli_download"

\* the response arrives: Content-Length (-1 when absent) is read, the destination
\* file is opened and reporthook(0, bs, size) is called
urlretrieve_open ==
    /\ DownloadRunner
    /\ dl.status = "start"
    /\ temp_exists
    /\ \E size \in -1..MaxTotal, body \in 0..MaxTotal :
        /\ dl' = [status |-> "running", total_size |-> size,
                  remaining |-> IF size >= 0 THEN Min(size, body) ELSE body,
                  read |-> 0, block_num |-> 0, raised |-> ""]
        /\ callbacks' = reporthook(callbacks, 0, BlockSize, size)
    /\ UNCHANGED <<logVars, argsVars, pc, stage, error, releaseVars, tempVars, instVars, guiVars, wizard>>

\* one block is read and written, then reporthook(blocknum, bs, size) is called
urlretrieve_read ==
    /\ DownloadRunner
    /\ dl.status = "running"
    /\ dl.remaining > 0
    /\ LET n == Min(BlockSize, dl.remaining)
       IN  /\ dl' = [dl EXCEPT !.read = @ + n, !.remaining = @ - n, !.block_num = @ + 1]
           /\ callbacks' = reporthook(callbacks, dl.block_num + 1, BlockSize, dl.total_size)
    /\ UNCHANGED <<logVars, argsVars, pc, stage, error, releaseVars, tempVars, instVars, guiVars, wizard>>

\* end of the body: ContentTooShortError when fewer bytes than announced, else return True
urlretrieve_return ==
    /\ DownloadRunner
    /\ dl.status = "running"
    /\ dl.remaining = 0
    /\ dl' = IF dl.total_size >= 0 /\ dl.read < dl.total_size
             THEN [dl EXCEPT !.status = "failed", !.raised = "ContentTooShortError"]
             ELSE [dl EXCEPT !.status = "ok"]
    /\ UNCHANGED <<logVars, argsVars, pc, stage, error, releaseVars, tempVars, callbacks, instVars,
                   guiVars, wizard>>

\* any transport or file error: raise Exception("Download failed: ...")
urlretrieve_raises ==
    /\ DownloadRunner
    /\ dl.status \in {"start", "running"}
    /\ dl' = [dl EXCEPT !.status = "failed", !.remaining = 0, !.raised = "URLError"]
    /\ UNCHANGED <<logVars, argsVars, pc, stage, error, releaseVars, tempVars, callbacks, instVars,
                   guiVars, wizard>>

(***************************************************************************)
(* install_deb, run by CLIInstaller.run itself or by the InstallThread.    *)
(***************************************************************************)
InstallRunner ==
    IF use_gui THEN inst_thread = "running" /\ pc # "exited" ELSE pc = "cli_install"

ExitCodes == {0, 1}

\* progress_callback("Installing dependencies..."); Popen(["sudo","apt","install","-y",deb_path])
install_deb_begin ==
    /\ InstallRunner
    /\ inst.status = "start"
    /\ status_msgs' = Append(status_msgs, <<"Installing dependencies...">>)
    /\ inst' = [inst EXCEPT !.status = "primary", !.cmds = Append(@, "apt install")]
    /\ UNCHANGED <<logVars, argsVars, pc, stage, error, releaseVars, tempVars, dlVars, guiVars, wizard>>

\* install_deb that collects the output and reports nothing while the process runs
install_deb_line_buffered ==
    /\ InstallRunner
    /\ inst.status = "primary"
    /\ Len(inst.output_lines) < MaxLines
    /\ \E line \in Lines :
        /\ inst' = [inst EXCEPT !.output_lines = Append(@, line)]
        /\ UNCHANGED status_msgs
    /\ UNCHANGED <<logVars, argsVars, pc, stage, error, releaseVars, tempVars, dlVars, guiVars, wizard>>

\* for line in process.stdout: output_lines.append(line); progress_callback(line.strip())
install_deb_line ==
    /\ InstallRunner
    /\ inst.status = "primary"
    /\ Len(inst.output_lines) < MaxLines
    /\ \E line \in Lines :
        /\ inst' = [inst EXCEPT !.output_lines = Append(@, line)]
        /\ status_msgs' = Append(status_msgs, strip(line))
    /\ UNCHANGED <<logVars, argsVars, pc, stage, error, releaseVars, tempVars, dlVars, guiVars, wizard>>

\* install_deb without the fallback: a non-zero returncode fails the install at once
install_deb_wait_no_fallback ==
    /\ InstallRunner
    /\ inst.status = "primary"
    /\ \E returncode \in ExitCodes :
        inst' = IF returncode = 0
                THEN [inst EXCEPT !.status = "ok", !.returncodes = Append(@, returncode),
                                  !.message = Concat(inst.output_lines)]
                ELSE [inst EXCEPT !.status = "failed", !.returncodes = Append(@, returncode),
                                  !.message = INSTALL_FAILED_PREFIX \o Concat(inst.output_lines)]
    /\ UNCHANGED <<logVars, argsVars, pc, stage, error, releaseVars, tempVars, dlVars, status_msgs,
                   guiVars, wizard>>

\* process.wait(): returncode 0 -> return True, "".join(output_lines); otherwise the
\* raised exception is caught and the fallback announced
install_deb_wait ==
    /\ InstallRunner
    /\ inst.status = "primary"
    /\ \E returncode \in ExitCodes :
        IF returncode = 0
        THEN /\ inst' = [inst EXCEPT !.status = "ok", !.returncodes = Append(@, returncode),
                                     !.message = Concat(inst.output_lines)]
             /\ UNCHANGED status_msgs
        ELSE /\ inst' = [inst EXCEPT !.status = "dpkg", !.returncodes = Append(@, returncode)]
             /\ status_msgs' =
                    Append(status_msgs, <<"Trying alternative installation method...">>)
    /\ UNCHANGED <<logVars, argsVars, pc, stage, error, releaseVars, tempVars, dlVars, guiVars, wizard>>

\* dpkg -i run without check=True: its exit status is ignored
install_deb_dpkg_unchecked ==
    /\ InstallRunner
    /\ inst.status = "dpkg"
    /\ \E returncode \in ExitCodes, stderr \in StderrTexts :
        inst' = IF returncode = 0
                THEN [inst EXCEPT !.status = "fix", !.cmds = Append(@, "dpkg -i"),
                                  !.returncodes = Append(@, returncode)]
                ELSE [inst EXCEPT !.status = "fix", !.cmds = Append(@, "dpkg -i"),
                                  !.returncodes = Append(@, returncode)]
    /\ UNCHANGED <<logVars, argsVars, pc, stage, error, releaseVars, tempVars, dlVars, status_msgs,
                   guiVars, wizard>>

\* subprocess.run(["sudo","dpkg","-i",deb_path], check=True, ...)
install_deb_dpkg ==
    /\ InstallRunner
    /\ inst.status = "dpkg"
    /\ \E returncode \in ExitCodes, stderr \in StderrTexts :
        inst' = IF returncode = 0
                THEN [inst EXCEPT !.status = "fix", !.cmds = Append(@, "dpkg -i"),
                                  !.returncodes = Append(@, returncode)]
                ELSE [inst EXCEPT !.status = "failed", !.cmds = Append(@, "dpkg -i"),
                                  !.returncodes = Append(@, returncode),
                                  !.message = INSTALL_FAILED_PREFIX \o stderr]
    /\ UNCHANGED <<logVars, argsVars, pc, stage, error, releaseVars, tempVars, dlVars, status_msgs,
                   guiVars, wizard>>

\* subprocess.run(["sudo","apt","install","-f","-y"], check=True, ...)
install_deb_fix ==
    /\ InstallRunner
    /\ inst.status = "fix"
    /\ \E returncode \in ExitCodes, stderr \in StderrTexts :
        inst' = IF returncode = 0
                THEN [inst EXCEPT !.status = "ok", !.cmds = Append(@, "apt install -f"),
                                  !.returncodes = Append(@, returncode),
                                  !.message = <<"Installation completed successfully">>]
                ELSE [inst EXCEPT !.status = "failed", !.cmds = Append(@, "apt install -f"),
                                  !.returncodes = Append(@, returncode),
                                  !.message = INSTALL_FAILED_PREFIX \o stderr]
    /\ UNCHANGED <<logVars, argsVars, pc, stage, error, releaseVars, tempVars, dlVars, status_msgs,
                   guiVars, wizard>>

(***************************************************************************)
(* InstallerWindow and its worker threads.  __init__ runs check_and_start, *)
(* which runs up to the start of the DownloadThread before the window is   *)
(* shown; every later handler runs in the event loop of the UI thread.     *)
(***************************************************************************)
\* cleanup() that tests a path that is never there and so removes nothing
cleanup_removes_nothing == UNCHANGED tempVars

\* cleanup(): if self.temp_dir and os.path.exists(self.temp_dir): shutil.rmtree(...)
cleanup ==
    IF mkdtemp_calls > 0 /\ temp_exists THEN rmtree(1) ELSE UNCHANGED tempVars

\* check_and_start whose `if errors:` arm lacks the return
GUI_check_compatibility_no_return ==
    /\ pc = "gui_compat"
    /\ \E errors \in CompatErrors :
        /\ compat_errors' = errors
        /\ stage' = IF errors # <<>> THEN "INCOMPATIBLE" ELSE "CheckingPrivilege"
        /\ pc' = "gui_root"
    /\ history' = Append(history, Call("check_system_compatibility", "main"))
    /\ UNCHANGED exit_code
    /\ UNCHANGED <<argsVars, has_root, error, releaseVars, tempVars, dlVars, instVars,
                   guiVars, wizard>>

\* check_and_start: errors = check_system_compatibility(); if errors: ...; return
GUI_check_compatibility ==
    /\ pc = "gui_compat"
    /\ \E errors \in CompatErrors :
        /\ compat_errors' = errors
        /\ IF errors # <<>>
           THEN /\ stage' = "INCOMPATIBLE"
                /\ pc' = "gui_event_loop"
           ELSE /\ stage' = "CheckingPrivilege"
                /\ pc' = "gui_root"
    /\ history' = Append(history, Call("check_system_compatibility", "main"))
    /\ UNCHANGED exit_code
    /\ UNCHANGED <<argsVars, has_root, error, releaseVars, tempVars, dlVars, instVars, guiVars, wizard>>

\* check_and_start: if not check_root(): ...; return
GUI_check_root ==
    /\ pc = "gui_root"
    /\ \E is_root \in BOOLEAN :
        /\ has_root' = is_root
        /\ IF ~is_root
           THEN /\ stage' = "UNAUTHORIZED"
                /\ pc' = "gui_event_loop"
           ELSE /\ stage' = "ResolvingRelease"
                /\ pc' = "gui_resolve"
    /\ history' = Append(history, Call("check_root", "main"))
    /\ UNCHANGED exit_code
    /\ UNCHANGED <<argsVars, compat_errors, error, releaseVars, tempVars, dlVars, instVars, guiVars, wizard>>

\* start_installation: release_info = get_latest_release_info(GITHUB_REPO); version = ...
GUI_get_release ==
    /\ pc = "gui_resolve"
    /\ \E resp \in Responses :
        LET info == get_latest_release_info(resp)
        IN  /\ response' = resp
            /\ IF info.raised # ""
               THEN /\ error' = info.raised
                    /\ stage' = "RESOLVE_FAILED"
                    /\ pc' = "gui_event_loop"
                    /\ UNCHANGED <<version, assets>>
               ELSE /\ version' = IF self_version # <<>> THEN self_version ELSE info.version
                    /\ assets' = info.assets
                    /\ stage' = "SelectingAsset"
                    /\ pc' = "gui_select"
                    /\ UNCHANGED error
    /\ history' = Append(history, Call("get_latest_release_info", "main"))
    /\ UNCHANGED <<checkVars, exit_code, argsVars, selected, tempVars, dlVars, instVars, guiVars, wizard>>

\* start_installation: download_url, filename = find_deb_asset(...)
GUI_find_asset ==
    /\ pc = "gui_select"
    /\ LET found == find_deb_asset(assets, version)
       IN  IF found.raised
           THEN /\ error' = "Could not find .deb file in release assets"
                /\ stage' = "ASSET_NOT_FOUND"
                /\ pc' = "gui_event_loop"
                /\ UNCHANGED selected
           ELSE /\ selected' = [url |-> found.url, name |-> found.name]
                /\ pc' = "gui_download_package"
                /\ UNCHANGED <<error, stage>>
    /\ history' = Append(history, Call("find_deb_asset", "main"))
    /\ UNCHANGED <<checkVars, exit_code, argsVars, response, version, assets, tempVars, dlVars, instVars, guiVars,
                   wizard>>

\* download_package: mkdtemp, deb_path, DownloadThread(...).start(); start_installation
\* and the constructor return and the window is shown
download_package ==
    /\ pc = "gui_download_package"
    /\ mkdtemp
    /\ dl' = [DlIdle EXCEPT !.status = "start"]
    /\ dl_thread' = "running"
    /\ response' = NoResponse
    /\ version' = <<>>
    /\ assets' = <<>>
    /\ stage' = "Downloading"
    /\ pc' = "gui_event_loop"
    /\ history' = history \o <<Call("mkdtemp", "main"), Call("download_file", "DownloadThread")>>
    /\ UNCHANGED <<checkVars, exit_code, argsVars, error, selected, callbacks, instVars, inst_thread, signals,
                   launch_enabled, wizard>>

\* DownloadThread.run: self.finished.emit(True, ...) or, on an exception, emit(False, str(e))
DownloadThread_finished ==
    /\ dl_thread = "running"
    /\ pc # "exited"
    /\ dl.status \in {"ok", "failed"}
    /\ signals' = Append(signals,
            [name |-> "download_finished", success |-> dl.status = "ok",
             message |-> IF dl.status = "ok" THEN <<"Download completed successfully">>
                         ELSE <<"Download failed">>])
    /\ dl_thread' = "done"
    /\ UNCHANGED <<logVars, argsVars, pc, stage, error, releaseVars, tempVars, dlVars, instVars,
                   inst_thread, launch_enabled, wizard>>

\* on_download_finished that installs whatever the download reported
on_download_finished_ignores_success ==
    /\ pc = "gui_event_loop"
    /\ signals # <<>>
    /\ Head(signals).name = "download_finished"
    /\ signals' = Tail(signals)
    /\ IF TRUE
       THEN /\ inst' = [InstIdle EXCEPT !.status = "start"]
            /\ inst_thread' = "running"
            /\ stage' = "Installing"
            /\ UNCHANGED <<error, tempVars>>
       ELSE /\ error' = "Download failed"
            /\ stage' = "DOWNLOAD_FAILED"
            /\ cleanup
            /\ UNCHANGED <<inst, inst_thread>>
    /\ history' = IF TRUE
                  THEN Append(history, Call("install_deb", "InstallThread"))
                  ELSE history
    /\ UNCHANGED <<checkVars, exit_code, argsVars, pc, releaseVars, dlVars, status_msgs, dl_thread,
                   launch_enabled, wizard>>

\* on_download_finished: success -> install_package() starts the InstallThread;
\* otherwise the error is shown and cleanup() runs
on_download_finished ==
    /\ pc = "gui_event_loop"
    /\ signals # <<>>
    /\ Head(signals).name = "download_finished"
    /\ signals' = Tail(signals)
    /\ IF Head(signals).success
       THEN /\ inst' = [InstIdle EXCEPT !.status = "start"]
            /\ inst_thread' = "running"
            /\ stage' = "Installing"
            /\ UNCHANGED <<error, tempVars>>
       ELSE /\ error' = "Download failed"
            /\ stage' = "DOWNLOAD_FAILED"
            /\ cleanup
            /\ UNCHANGED <<inst, inst_thread>>
    /\ history' = IF Head(signals).success
                  THEN Append(history, Call("install_deb", "InstallThread"))
                  ELSE history
    /\ UNCHANGED <<checkVars, exit_code, argsVars, pc, releaseVars, dlVars, status_msgs, dl_thread,
                   launch_enabled, wizard>>

\* InstallThread.run: self.finished.emit(success, output) or emit(False, str(e))
InstallThread_finished ==
    /\ inst_thread = "running"
    /\ pc # "exited"
    /\ inst.status \in {"ok", "failed"}
    /\ signals' = Append(signals,
            [name |-> "install_finished", success |-> inst.status = "ok",
             message |-> inst.message])
    /\ inst_thread' = "done"
    /\ UNCHANGED <<logVars, argsVars, pc, stage, error, releaseVars, tempVars, dlVars, instVars,
                   dl_thread, launch_enabled, wizard>>

\* on_install_finished with setEnabled(True) outside the success arm
on_install_finished_always_enables ==
    /\ pc = "gui_event_loop"
    /\ signals # <<>>
    /\ Head(signals).name = "install_finished"
    /\ signals' = Tail(signals)
    /\ IF Head(signals).success
       THEN /\ stage' = "SUCCEEDED"
            /\ launch_enabled' = TRUE
            /\ UNCHANGED error
       ELSE /\ stage' = "INSTALL_FAILED"
            /\ error' = "Installation failed"
            /\ launch_enabled' = TRUE
    /\ cleanup
    /\ UNCHANGED <<logVars, argsVars, pc, releaseVars, dlVars, instVars, dl_thread, inst_thread,
                   wizard>>

\* on_install_finished: report success or failure, then cleanup()
on_install_finished ==
    /\ pc = "gui_event_loop"
    /\ signals # <<>>
    /\ Head(signals).name = "install_finished"
    /\ signals' = Tail(signals)
    /\ IF Head(signals).success
       THEN /\ stage' = "SUCCEEDED"
            /\ launch_enabled' = TRUE
            /\ UNCHANGED error
       ELSE /\ stage' = "INSTALL_FAILED"
            /\ error' = "Installation failed"
            /\ UNCHANGED launch_enabled
    /\ cleanup
    /\ UNCHANGED <<logVars, argsVars, pc, releaseVars, dlVars, instVars, dl_thread, inst_thread,
                   wizard>>

\* launch_wizard (launch_button clicked): Popen, then self.close() -> closeEvent;
\* a failed Popen is shown as a warning and the window stays open
launch_wizard ==
    /\ pc = "gui_event_loop"
    /\ launch_enabled
    /\ \E spawned \in BOOLEAN :
        IF spawned
        THEN /\ wizard' = "launched"
             /\ cleanup
             /\ pc' = "gui_closed"
        ELSE /\ wizard' = "warning"
             /\ UNCHANGED <<tempVars, pc>>
    /\ UNCHANGED <<logVars, argsVars, stage, error, releaseVars, dlVars, instVars, guiVars>>

\* closeEvent (Close button or window manager): cleanup(); event.accept()
closeEvent ==
    /\ pc = "gui_event_loop"
    /\ cleanup
    /\ pc' = "gui_closed"
    /\ UNCHANGED <<logVars, argsVars, stage, error, releaseVars, dlVars, instVars, guiVars, wizard>>

\* main: app.exec_() returns once the window has closed; sys.exit ends the process
app_exit ==
    /\ pc = "gui_closed"
    /\ pc' = "exited"
    /\ exit_code' = 0
    /\ UNCHANGED <<history, checkVars, argsVars, stage, error, releaseVars, tempVars, dlVars, instVars, guiVars,
                   wizard>>

Next ==
    \/ main
    \/ CLI_check_compatibility
    \/ CLI_check_root
    \/ CLI_get_release
    \/ CLI_find_asset
    \/ CLI_start_download
    \/ CLI_download_done
    \/ CLI_install_done
    \/ CLI_ask_wizard
    \/ urlretrieve_open
    \/ urlretrieve_read
    \/ urlretrieve_return
    \/ urlretrieve_raises
    \/ install_deb_begin
    \/ install_deb_line
    \/ install_deb_wait
    \/ install_deb_dpkg
    \/ install_deb_fix
    \/ GUI_check_compatibility
    \/ GUI_check_root
    \/ GUI_get_release
    \/ GUI_find_asset
    \/ download_package
    \/ DownloadThread_finished
    \/ on_download_finished
    \/ InstallThread_finished
    \/ on_install_finished
    \/ launch_wizard
    \/ closeEvent
    \/ app_exit

Spec == Init /\ [][Next]_vars

(***************************************************************************)
(* Properties.                                                             *)
(***************************************************************************)
\* find_deb_asset has returned and the download has not started yet
AssetSelected == pc \in {"cli_mkdtemp", "gui_download_package"}

\* positions of the assets carrying the exact name for the version in use
ExactPositions ==
    { i \in 1..Len(assets) : assets[i].name = DEB_PATTERN_format(version) }

\* C1: whenever the asset list holds an asset named kdg-kiosk_{version}_amd64.deb,
\* the asset find_deb_asset returned is that one (the first of them), even when
\* another asset ending in .deb stands earlier in the list.
C1_ExactNamePreferred ==
    (AssetSelected /\ ExactPositions # {}) =>
        /\ selected.name = DEB_PATTERN_format(version)
        /\ selected.url \in ExactPositions

\* the tag without its first character when that character is "v", else the tag
StripOneV(tag) == IF tag # <<>> /\ Head(tag) = "v" THEN Tail(tag) ELSE tag

\* get_latest_release_info has returned and no --version overrides its result
ReleaseResolved == pc \in {"cli_select", "gui_select"} /\ self_version = <<>>

\* C2: the resolved version is the tag_name with exactly one leading "v" removed,
\* and the tag_name itself when it does not start with "v".
C2_StripsExactlyOneV ==
    ReleaseResolved => version = StripOneV(response.tag_name)

\* the process of this run has ended
RunComplete == pc = "exited"

\* C3: in every complete run that made a temporary directory, shutil.rmtree was
\* called on it exactly once, whichever stage failed and also on success.
C3_CleanupExactlyOnce ==
    (RunComplete /\ mkdtemp_calls > 0) => rmtree_calls = 1

\* the pipeline has reported the outcome of a run that made a temporary directory
TerminalWithWorkDir == stage \in {"DOWNLOAD_FAILED", "INSTALL_FAILED", "SUCCEEDED"}

\* C4: once a run that made a temporary directory has reached DOWNLOAD_FAILED,
\* INSTALL_FAILED or SUCCEEDED, in either front end, the directory is gone.
C4_WorkDirRemovedAtTerminal ==
    TerminalWithWorkDir => (mkdtemp_calls = 1 /\ ~temp_exists)

\* GUI run whose download failed: the directory was removed and install never ran
C4_Witness ==
    /\ use_gui
    /\ stage = "DOWNLOAD_FAILED"
    /\ inst.status = "idle"
    /\ mkdtemp_calls = 1
    /\ rmtree_calls = 1
    /\ ~temp_exists

C6_ProgressMonotone ==
    /\ \A i \in 1..(Len(callbacks) - 1) : callbacks[i].percent <= callbacks[i + 1].percent
    /\ (dl.status = "ok" /\ dl.total_size > 0) =>
            /\ callbacks # <<>>
            /\ callbacks[Len(callbacks)].percent = 100

\* a completed download of 5 bytes in three blocks: 0, 40, 80, 100
C6_Witness ==
    /\ dl.status = "ok"
    /\ dl.total_size = 5
    /\ dl.block_num = 3
    /\ Len(callbacks) = 4
    /\ callbacks[2].percent = 40
    /\ callbacks[4].percent = 100

\* the front end has acted on the end of download_file (the CLI has gone past the
\* call; the open window has handled the DownloadThread's finished signal)
DownloadHandled ==
    IF use_gui
    THEN pc = "gui_event_loop" /\ dl_thread = "done" /\ signals = <<>>
    ELSE pc \in {"cli_install", "cli_wizard"}

\* C7: when the total size is absent, zero or negative, download_file never calls
\* the progress callback and fails only on a transport error (never for the missing
\* size); the pipeline reports DOWNLOAD_FAILED only for a failed download, and after
\* a successful one it goes on to the installation.
C7_NoProgressWithoutTotal ==
    /\ dl.total_size <= 0 => callbacks = <<>>
    /\ (dl.total_size <= 0 /\ dl.status = "failed") => dl.raised = "URLError"
    /\ stage = "DOWNLOAD_FAILED" => dl.status = "failed"
    /\ (dl.total_size <= 0 /\ dl.status = "ok" /\ DownloadHandled) =>
            stage \in {"Installing", "INSTALL_FAILED", "SUCCEEDED"}

\* bytes were transferred without any known total, nothing was reported, and the
\* pipeline is installing
C7_Witness ==
    /\ dl.total_size = -1
    /\ dl.read > 0
    /\ dl.status = "ok"
    /\ callbacks = <<>>
    /\ stage = "Installing"
    /\ inst.status = "primary"

\* some asset of the list has a name ending in .deb
HasDebAsset == \E i \in 1..Len(assets) : endswith(assets[i].name, DOT_DEB)

\* C8: find_deb_asset succeeds only when some asset name ends in .deb; otherwise
\* the run stops at ASSET_NOT_FOUND and never makes a temporary directory nor
\* starts a download.
C8_AssetNotFound ==
    /\ AssetSelected => HasDebAsset
    /\ stage = "ASSET_NOT_FOUND" =>
            /\ ~HasDebAsset
            /\ mkdtemp_calls = 0
            /\ ~temp_exists
            /\ dl.status = "idle"
            /\ dl_thread = "none"
            /\ inst.status = "idle"

\* GUI run over a release whose two assets are both other than .deb files, after exit
C8_Witness ==
    /\ use_gui
    /\ stage = "ASSET_NOT_FOUND"
    /\ Len(assets) = 2
    /\ pc = "exited"
    /\ mkdtemp_calls = 0

\* C9: a 404 answer of the release endpoint stops the run at release resolution
\* with the "No releases found" message, which no other answer produces, and no
\* temporary directory is made in that run.
C9_NoReleaseNoWorkDir ==
    /\ response.kind = "http_404" =>
            /\ stage = "RESOLVE_FAILED"
            /\ error = "No releases found"
            /\ mkdtemp_calls = 0
            /\ ~temp_exists
            /\ dl.status = "idle"
    /\ error = "No releases found" => response.kind = "http_404"

\* GUI run that met a 404 and was closed afterwards
C9_Witness ==
    /\ use_gui
    /\ response.kind = "http_404"
    /\ error = "No releases found"
    /\ pc = "exited"

\* C10: connection and timeout failures are reported as a connection error, a 404
\* as "No releases found", and a body that is not well-formed metadata as an error
\* that is neither of these two.
C10_ThreeFailureKinds ==
    stage = "RESOLVE_FAILED" =>
        /\ response.kind \in {"url_error", "timeout"} => error = "Failed to connect to GitHub"
        /\ response.kind = "http_404" => error = "No releases found"
        /\ response.kind \in {"bad_json", "missing_field"} =>
                error \notin {"Failed to connect to GitHub", "No releases found"}

\* positions of the calls of `name` in the history of the run
CallsOf(name) == { i \in 1..Len(history) : history[i].call = name }
Called(name) == CallsOf(name) # {}

\* nothing after the prechecks has happened: no request, download, install or directory
NothingExpensiveDone ==
    /\ response.kind = "none"
    /\ ~Called("get_latest_release_info")
    /\ ~Called("find_deb_asset")
    /\ ~Called("download_file")
    /\ ~Called("install_deb")
    /\ dl.status = "idle"
    /\ inst.status = "idle"
    /\ dl_thread = "none"
    /\ inst_thread = "none"
    /\ mkdtemp_calls = 0
    /\ ~temp_exists

\* C11: in every run where check_system_compatibility returned at least one reason,
\* the pipeline is halted at INCOMPATIBLE and no release request, download, install
\* subprocess or temporary directory ever happens, in either front end.
C11_IncompatibleHaltsBeforeNetwork ==
    compat_errors # <<>> =>
        /\ stage = "INCOMPATIBLE"
        /\ history = <<Call("check_system_compatibility", "main")>>
        /\ NothingExpensiveDone

\* GUI run with two blocking reasons, after the window was closed
C11_Witness ==
    /\ use_gui
    /\ Len(compat_errors) = 2
    /\ stage = "INCOMPATIBLE"
    /\ pc = "exited"

\* C12: check_root is called only after check_system_compatibility returned no
\* reason; when it returns false the pipeline is halted at UNAUTHORIZED with no
\* release request, download, install or temporary directory; and each precheck is
\* called at most once in a run.
C12_PrivilegeGate ==
    /\ Cardinality(CallsOf("check_system_compatibility")) <= 1
    /\ Cardinality(CallsOf("check_root")) <= 1
    /\ Called("check_root") =>
            /\ compat_errors = <<>>
            /\ history[1].call = "check_system_compatibility"
            /\ history[2].call = "check_root"
    /\ (Called("check_root") /\ ~has_root) =>
            /\ stage = "UNAUTHORIZED"
            /\ Len(history) = 2
            /\ NothingExpensiveDone

\* CLI run without privilege, after the process ended
C12_Witness ==
    /\ ~use_gui
    /\ Called("check_root")
    /\ ~has_root
    /\ stage = "UNAUTHORIZED"
    /\ pc = "exited"

FailureStages ==
    {"INCOMPATIBLE", "UNAUTHORIZED", "RESOLVE_FAILED", "ASSET_NOT_FOUND", "DOWNLOAD_FAILED",
     "INSTALL_FAILED"}

\* C13: the process exit code is 0 when the pipeline succeeded and 1 when it
\* failed at any stage, whichever front end main selected.
C13_ExitCode ==
    RunComplete =>
        /\ stage = "SUCCEEDED" => exit_code = 0
        /\ stage \in FailureStages => exit_code = 1

\* C14: the setup wizard is spawned, and the launch button enabled, only after a
\* successful installation; a failed spawn is a warning that leaves the run
\* succeeded (and the CLI exit code 0).
C14_WizardOnlyAfterSuccess ==
    /\ wizard # "none" => stage = "SUCCEEDED"
    /\ launch_enabled => stage = "SUCCEEDED"
    /\ (wizard = "warning" /\ ~use_gui /\ RunComplete) => exit_code = 0

\* CLI run that succeeded and whose wizard could not be spawned
C14_Witness ==
    /\ ~use_gui
    /\ wizard = "warning"
    /\ stage = "SUCCEEDED"
    /\ pc = "exited"
    /\ exit_code = 0

PipelineOrder ==
    <<"check_system_compatibility", "check_root", "get_latest_release_info",
      "find_deb_asset", "mkdtemp", "download_file", "install_deb">>

\* C15: the calls of a run are a prefix of the fixed order compatibility check,
\* privilege check, release resolution, asset selection, directory creation,
\* download, installation (so none happens twice or out of order); a failed stage
\* is the last one started; and installation starts only after download_file
\* returned successfully.
C15_SinglePass ==
    /\ Len(history) <= Len(PipelineOrder)
    /\ \A i \in 1..Len(history) : history[i].call = PipelineOrder[i]
    /\ stage = "INCOMPATIBLE" => Len(history) = 1
    /\ stage = "UNAUTHORIZED" => Len(history) = 2
    /\ stage = "RESOLVE_FAILED" => Len(history) = 3
    /\ stage = "ASSET_NOT_FOUND" => Len(history) = 4
    /\ stage = "DOWNLOAD_FAILED" => (Len(history) = 6 /\ inst.status = "idle")
    /\ Called("install_deb") => dl.status = "ok"

\* GUI run whose download failed: six calls, no installation, window closed
C15_Witness ==
    /\ use_gui
    /\ stage = "DOWNLOAD_FAILED"
    /\ Len(history) = 6
    /\ dl.status = "failed"
    /\ pc = "exited"

\* C16: install_deb ends in success exactly when apt install exits 0, or it exits
\* non-zero and dpkg -i and apt install -f both exit 0; after a primary exit 0 no
\* fallback command is run; after a non-zero dpkg -i, apt install -f is not run and
\* install_deb fails; and the front end reports what install_deb reported.
C16_InstallOutcome ==
    LET rc == inst.returncodes
    IN  /\ inst.status \in {"ok", "failed"} =>
                /\ Len(rc) >= 1
                /\ (inst.status = "ok") <=>
                        \/ rc = <<0>>
                        \/ (Len(rc) = 3 /\ rc[1] # 0 /\ rc[2] = 0 /\ rc[3] = 0)
        /\ (Len(rc) >= 1 /\ rc[1] = 0) =>
                (inst.status = "ok" /\ inst.cmds = <<"apt install">> /\ Len(rc) = 1)
        /\ (Len(rc) >= 2 /\ rc[2] # 0) =>
                /\ inst.status = "failed"
                /\ inst.cmds = <<"apt install", "dpkg -i">>
                /\ Len(rc) = 2
        /\ stage = "SUCCEEDED" => inst.status = "ok"
        /\ stage = "INSTALL_FAILED" => inst.status = "failed"

\* success through the fallback: apt install failed, dpkg -i and apt install -f passed
C16_Witness ==
    /\ inst.returncodes = <<1, 0, 0>>
    /\ inst.cmds = <<"apt install", "dpkg -i", "apt install -f">>
    /\ inst.status = "ok"
    /\ stage = "SUCCEEDED"

(***************************************************************************)
(* C17: in the graphical front end none of the blocking calls of the       *)
(* pipeline (release-metadata fetch, download, install) is executed by the *)
(* UI thread; each is executed by a worker thread.                         *)
(***************************************************************************)
BlockingCalls == {"get_latest_release_info", "download_file", "install_deb"}

C17_NoBlockingCallOnUIThread ==
    use_gui =>
        \A i \in 1..Len(history) :
            history[i].call \in BlockingCalls => history[i].thread # "main"

(***************************************************************************)
(* C18: during the primary tier every output line of the package-manager   *)
(* process reaches the status callback, one callback per line, in the      *)
(* order produced and before the exit status is examined; on primary       *)
(* success the returned log is the concatenation of exactly those lines.   *)
(***************************************************************************)
Forwarded == [i \in 1..Len(inst.output_lines) |-> strip(inst.output_lines[i])]

C18_LinesStreamedInOrder ==
    /\ inst.status = "primary" =>
            /\ inst.returncodes = <<>>
            /\ Len(status_msgs) = 1 + Len(inst.output_lines)
    /\ inst.status \notin {"idle", "start"} =>
            /\ Len(status_msgs) >= 1 + Len(inst.output_lines)
            /\ status_msgs[1] = <<"Installing dependencies...">>
            /\ \A i \in 1..Len(inst.output_lines) : status_msgs[i + 1] = Forwarded[i]
    /\ (inst.status = "ok" /\ inst.returncodes = <<0>>) =>
            /\ inst.message = Concat(inst.output_lines)
            /\ Len(status_msgs) = 1 + Len(inst.output_lines)

\* primary success after two different lines, the second one with surrounding blanks
C18_Witness ==
    /\ inst.status = "ok"
    /\ inst.returncodes = <<0>>
    /\ Len(inst.output_lines) = 2
    /\ inst.output_lines[1] # inst.output_lines[2]
    /\ Forwarded[2] # inst.output_lines[2]
    /\ Len(status_msgs) = 3

(***************************************************************************)
(* C19: a run creates 0 or 1 temporary directories, and creates it only    *)
(* after asset selection has succeeded.                                    *)
(***************************************************************************)
C19_AtMostOneWorkDir ==
    /\ mkdtemp_calls \in {0, 1}
    /\ Cardinality(CallsOf("mkdtemp")) = mkdtemp_calls
    /\ mkdtemp_calls = 1 =>
            /\ selected # NoSelection
            /\ stage # "ASSET_NOT_FOUND"
            /\ Called("find_deb_asset")
            /\ \A i \in CallsOf("find_deb_asset"), j \in CallsOf("mkdtemp") : i < j

\* the directory of a GUI run exists while its download is under way
C19_Witness ==
    /\ use_gui
    /\ mkdtemp_calls = 1
    /\ temp_exists
    /\ selected # NoSelection
    /\ dl.status = "running"

(***************************************************************************)
(* C20: in the graphical front end the temporary directory is never        *)
(* removed while a download or an installation is in flight.               *)
(***************************************************************************)
WorkerInFlight ==
    \/ dl_thread = "running" /\ dl.status \in {"start", "running"}
    \/ inst_thread = "running" /\ inst.status \in {"start", "primary", "dpkg", "fix"}

C20_NoRemovalInFlight ==
    (use_gui /\ mkdtemp_calls > 0 /\ pc # "exited" /\ WorkerInFlight) => temp_exists

(***************************************************************************)
(* C21: in every progress callback issued by download_file, percent is an  *)
(* integer in 0..100 and the reported bytes-downloaded value lies between  *)
(* 0 and the reported total size.                                          *)
(***************************************************************************)
C21_ProgressWithinBounds ==
    \A i \in 1..Len(callbacks) :
        /\ callbacks[i].percent \in 0..100
        /\ 0 <= callbacks[i].downloaded
        /\ callbacks[i].downloaded <= callbacks[i].total

====
